---- MODULE Spec2Model ----
(***************************************************************************)
(* Model of PyTorch/CIFAR10/main.py: the module-level variant flags and    *)
(* their assertion, the CNN_CIFAR10 configuration object, setup_model,     *)
(* the DataLoader batching, the epoch/batch training loop of main,         *)
(* check_accuracy, save_checkpoint and load_model.                         *)
(*                                                                         *)
(* Numbers are scaled to small naturals: a learning rate, a weight decay   *)
(* and a dropout rate are naturals (0 stands for 0.0), the learnable       *)
(* parameters and the gradient are one residue modulo ParamMod, and an     *)
(* accuracy is kept as the exact fraction num/den of the float it is.      *)
(***************************************************************************)
EXTENDS Integers, Sequences, FiniteSets

\* ---------------------------------------------------------------- bounds
MaxEpochs == 2
MaxTrain == 3
MaxVal == 2
MaxBatch == 2
ParamMod == 3
MaxEvalData == 3
MaxCallerEpoch == 2

\* ----------------------------------------------------- program constants
NumClasses == 10
DropoutP == 0
FCDropRate == 0

\* Values tried for self.learning_rate, self.weight_decay and self.drop_rate,
\* and for the momentum of an optimizer handed to load_model.
LearningRates == {1, 2}
WeightDecays == {0, 1}
DropRates == {0, 5}
Momenta == {0, 1}
Params == 0..(ParamMod - 1)

\* Pixel values and labels of the samples.
Xs == {0, 1}
Labels == {0, 1}

None == "None"
NoError == "none"

\* ------------------------------------------------------------------ data
Sample == [x : Xs, y : Labels]

\* The i-th (image, label) pair of the dataset, i counted from 0.
Dataset(i) == [x |-> i % 2, y |-> (i \div 2) % 2]

\* random_split(..., [n, v]): the first n items and the following v items.
TrainData(n) == [i \in 1..n |-> Dataset(i - 1)]
ValidationData(n, v) == [i \in 1..v |-> Dataset(n + i - 1)]

Min(a, b) == IF a <= b THEN a ELSE b

\* A loader that drops the last, incomplete batch (drop_last=True).
RECURSIVE DataLoaderDropLast(_, _)
DataLoaderDropLast(data, bs) ==
  IF Len(data) < bs THEN << >>
  ELSE <<SubSeq(data, 1, bs)>> \o DataLoaderDropLast(SubSeq(data, bs + 1, Len(data)), bs)

\* DataLoader(dataset, batch_size): consecutive batches of batch_size samples,
\* the last one shorter when the sizes do not divide (drop_last is False).
RECURSIVE DataLoader(_, _)
DataLoader(data, bs) ==
  IF Len(data) = 0 THEN << >>
  ELSE <<SubSeq(data, 1, Min(bs, Len(data)))>>
         \o DataLoader(SubSeq(data, Min(bs, Len(data)) + 1, Len(data)), bs)

\* ----------------------------------------------------------------- model
NoModel == [kind |-> None]

\* simple_fullynet.fullyNet(input_size, drop_rate, init_weights)
fullyNet(input_size, rate, w) ==
  [kind |-> "FC", params |-> w, training |-> TRUE,
   dropout_p |-> rate, out_features |-> NumClasses]

\* models.vgg16 with classifier[6] = Linear(4096, 10) and
\* classifier[2], classifier[5] = Dropout(p=0.0)
vgg16Modified(w) ==
  [kind |-> "CNN", params |-> w, training |-> TRUE,
   dropout_p |-> DropoutP, out_features |-> NumClasses]

\* setup_model: the CNN branch is tested first, the FC branch only otherwise.
SetupModel(cnn, fc, w) ==
  IF cnn THEN vgg16Modified(w)
  ELSE IF fc THEN fullyNet(32 * 32 * 3, FCDropRate, w)
  ELSE NoModel

\* scores = model(x); _, preds = scores.max(1): the class of one sample.
Predict(m, x) == (m.params + x) % NumClasses

Preds(m, batch) == [i \in 1..Len(batch) |-> Predict(m, batch[i].x)]

\* (preds == target).sum()
RECURSIVE Matches(_, _)
Matches(preds, batch) ==
  IF Len(batch) = 0 THEN 0
  ELSE (IF preds[1] = batch[1].y THEN 1 ELSE 0) + Matches(Tail(preds), Tail(batch))

\* criterion(scores, target): the loss of a batch, here the number of samples
\* whose top score is not the target class.
CrossEntropyLoss(preds, batch) == Len(batch) - Matches(preds, batch)

\* loss.backward(): the gradient is added to the one already stored.
Backward(g, l) == (g + l) % ParamMod

\* ------------------------------------------------------------- optimizer
NoOptimizer == [state |-> 0, param_groups |-> << >>]

\* torch.optim.SGD(model.parameters(), lr, weight_decay, momentum): one
\* parameter group over all the parameters, an empty (0) momentum buffer.
SGD(lr, wd, mom) ==
  [state |-> 0,
   param_groups |-> <<[lr |-> lr, weight_decay |-> wd, momentum |-> mom]>>]

\* optimizer.step() direction: grad + weight_decay * p, through the momentum
\* buffer when the group has momentum.
StepBuffer(p, g, opt) ==
  LET group == opt.param_groups[1]
      d == g + group.weight_decay * p
  IN IF group.momentum = 0 THEN opt.state
     ELSE (group.momentum * opt.state + d) % ParamMod

StepParams(p, g, opt) ==
  LET group == opt.param_groups[1]
      d == g + group.weight_decay * p
      dir == IF group.momentum = 0 THEN d ELSE StepBuffer(p, g, opt)
  IN (p + group.lr * dir * (ParamMod - 1)) % ParamMod

\* ------------------------------------------------------------ checkpoint
NoFile == [epoch |-> None]

\* save_checkpoint storing the epoch it was given instead of the next one.
SaveStateSameEpoch(m, opt, e) ==
  [state_dict |-> m.params, epoch |-> e, optimizer |-> opt]

\* save_checkpoint: the dictionary torch.save writes over the file.
SaveState(m, opt, e) ==
  [state_dict |-> m.params, epoch |-> e + 1, optimizer |-> opt]

\* model.load_state_dict(checkpoint['state_dict'])
LoadStateDict(m, checkpoint) == [m EXCEPT !.params = checkpoint.state_dict]

\* load_model whose loop sets the learning rate only.
LoadOptimizerLrOnly(checkpoint, lr, wd) ==
  LET o == checkpoint.optimizer
  IN [o EXCEPT !.param_groups =
        [i \in 1..Len(o.param_groups) |-> [o.param_groups[i] EXCEPT !.lr = lr]]]

\* optimizer.load_state_dict(checkpoint['optimizer']) followed by the loop
\* that sets lr and weight_decay of every param_group from the configuration.
LoadOptimizer(checkpoint, lr, wd) ==
  LET o == checkpoint.optimizer
  IN [o EXCEPT !.param_groups =
        [i \in 1..Len(o.param_groups) |->
           [o.param_groups[i] EXCEPT !.lr = lr, !.weight_decay = wd]]]

\* ----------------------------------------------------------------- state
VARIABLES
  train_CNN, train_FC,   \* module-level flags (lines 21-22)
  self,                  \* the CNN_CIFAR10 object's attributes
  split,                 \* the lengths given to random_split
  model, optimizer, grad,
  file,                  \* the checkpoint file on disk
  train_loader, validation_loader,
  pc, err,               \* position of the script, exception that ended it
  epoch, batch_idx, num_correct, total_checked, losses,
  scores, loss,          \* locals of the batch being processed
  ca,                    \* frame of check_accuracy: loader, position, counters
  acc,                   \* << >>, or <<a>> once check_accuracy returned a
  steps, saves, evals,   \* optimizer steps, checkpoint writes, evaluations done
  saved                  \* << >>, or <<arguments of the last save_checkpoint>>

vars == <<train_CNN, train_FC, self, split, model, optimizer, grad, file,
          train_loader, validation_loader, pc, err, epoch, batch_idx,
          num_correct, total_checked, losses, scores, loss, ca, acc,
          steps, saves, evals, saved>>

flagVars == <<train_CNN, train_FC, self, split>>
dataVars == <<train_loader, validation_loader>>
loopVars == <<epoch, batch_idx, num_correct, total_checked, losses>>
batchVars == <<scores, loss>>
ghostVars == <<steps, saves, evals, saved>>

\* entry is the model as it was when check_accuracy was called.
NoFrame == [loader |-> << >>, i |-> 0, num_correct |-> 0, num_samples |-> 0,
            ret |-> None, entry |-> NoModel]

Config ==
  [learning_rate : LearningRates, drop_rate : DropRates,
   weight_decay : WeightDecays,
   num_epochs : 0..MaxEpochs, batch_size : 1..MaxBatch, save_model : BOOLEAN,
   checkpoint_file : {"checkpoint/CIFAR10_VGG16"}]

\* The locals of main and the counters, before anything ran.
InitLocals ==
  /\ grad = 0
  /\ err = NoError
  /\ batch_idx = 0
  /\ num_correct = 0
  /\ total_checked = 0
  /\ losses = << >>
  /\ scores = << >>
  /\ loss = 0
  /\ acc = << >>
  /\ steps = 0
  /\ saves = 0
  /\ evals = 0
  /\ saved = << >>

\* The script as it starts: flags and attributes as edited in the source,
\* nothing built yet.
Init ==
  /\ train_CNN \in BOOLEAN
  /\ train_FC \in BOOLEAN
  /\ self \in Config
  /\ split \in (1..MaxTrain) \X (1..MaxVal)
  /\ pc = "assert"
  /\ model = NoModel
  /\ optimizer = NoOptimizer
  /\ file = NoFile
  /\ train_loader = << >>
  /\ validation_loader = << >>
  /\ ca = NoFrame
  /\ epoch = 0
  /\ InitLocals

\* -------------------------------------------------------- script, lines 21-23
\* assert (train_CNN or train_FC) == 1
FlagAssertion(cnn, fc) == (cnn \/ fc)

ValidateFlags ==
  /\ pc = "assert"
  /\ IF FlagAssertion(train_CNN, train_FC)
       THEN pc' = "setup_model" /\ err' = err
       ELSE pc' = "raised" /\ err' = "AssertionError"
  /\ UNCHANGED <<flagVars, model, optimizer, grad, file, dataVars, loopVars,
                 batchVars, ca, acc, ghostVars>>

\* ------------------------------------------------------ main, lines 131-134
MainSetupModel ==
  /\ pc = "setup_model"
  /\ \E w \in Params : model' = SetupModel(train_CNN, train_FC, w)
  /\ pc' = "optimizer"
  /\ UNCHANGED <<flagVars, optimizer, grad, file, dataVars, loopVars,
                 batchVars, ca, acc, ghostVars, err>>

MainOptimizer ==
  /\ pc = "optimizer"
  /\ optimizer' = SGD(self.learning_rate, self.weight_decay, 0)
  /\ pc' = "load_data"
  /\ UNCHANGED <<flagVars, model, grad, file, dataVars, loopVars,
                 batchVars, ca, acc, ghostVars, err>>

MainLoadData ==
  /\ pc = "load_data"
  /\ train_loader' = DataLoader(TrainData(split[1]), self.batch_size)
  /\ validation_loader' =
       DataLoader(ValidationData(split[1], split[2]), self.batch_size)
  /\ epoch' = 0
  /\ pc' = "epoch"
  /\ UNCHANGED <<flagVars, model, optimizer, grad, file, batch_idx,
                 num_correct, total_checked, losses, batchVars, ca, acc,
                 ghostVars, err>>

\* ------------------------------------------------------ main, lines 139-144
\* for epoch in range(self.num_epochs): the accumulators are reset.
EpochBegin ==
  /\ pc = "epoch"
  /\ IF epoch < self.num_epochs
       THEN /\ num_correct' = 0
            /\ total_checked' = 0
            /\ losses' = << >>
            /\ batch_idx' = 0
            /\ pc' = "batch"
       ELSE /\ pc' = "done"
            /\ UNCHANGED <<num_correct, total_checked, losses, batch_idx>>
  /\ UNCHANGED <<flagVars, model, optimizer, grad, file, dataVars, epoch,
                 batchVars, ca, acc, ghostVars, err>>

\* for batch_idx, (data, target) in enumerate(train_loader)
NextBatch ==
  /\ pc = "batch"
  /\ pc' = IF batch_idx < Len(train_loader) THEN "forward" ELSE "save"
  /\ UNCHANGED <<flagVars, model, optimizer, grad, file, dataVars, loopVars,
                 batchVars, ca, acc, ghostVars, err>>

CurrentBatch == train_loader[batch_idx + 1]

\* scores = model(data)
Forward ==
  /\ pc = "forward"
  /\ scores' = Preds(model, CurrentBatch)
  /\ pc' = "loss"
  /\ UNCHANGED <<flagVars, model, optimizer, grad, file, dataVars, loopVars,
                 loss, ca, acc, ghostVars, err>>

\* loss = criterion(scores, target); losses.append(loss.item())
Loss ==
  /\ pc = "loss"
  /\ loss' = CrossEntropyLoss(scores, CurrentBatch)
  /\ losses' = Append(losses, loss')
  /\ pc' = "zero_grad"
  /\ UNCHANGED <<flagVars, model, optimizer, grad, file, dataVars, epoch,
                 batch_idx, num_correct, total_checked, scores, ca, acc,
                 ghostVars, err>>

\* The batch step without optimizer.zero_grad(): the old gradient stays.
ZeroGradMissing ==
  /\ pc = "zero_grad"
  /\ pc' = "backward"
  /\ UNCHANGED <<flagVars, model, optimizer, grad, file, dataVars, loopVars,
                 batchVars, ca, acc, ghostVars, err>>

\* optimizer.zero_grad()
ZeroGrad ==
  /\ pc = "zero_grad"
  /\ grad' = 0
  /\ pc' = "backward"
  /\ UNCHANGED <<flagVars, model, optimizer, file, dataVars, loopVars,
                 batchVars, ca, acc, ghostVars, err>>

\* loss.backward()
BackwardPass ==
  /\ pc = "backward"
  /\ grad' = Backward(grad, loss)
  /\ pc' = "step"
  /\ UNCHANGED <<flagVars, model, optimizer, file, dataVars, loopVars,
                 batchVars, ca, acc, ghostVars, err>>

\* optimizer.step()
OptimizerStep ==
  /\ pc = "step"
  /\ model' = [model EXCEPT !.params = StepParams(model.params, grad, optimizer)]
  /\ optimizer' = [optimizer EXCEPT !.state = StepBuffer(model.params, grad, optimizer)]
  /\ steps' = steps + 1
  /\ pc' = "metrics"
  /\ UNCHANGED <<flagVars, grad, file, dataVars, loopVars, batchVars, ca, acc,
                 saves, evals, saved, err>>

\* _, preds = scores.max(1); num_correct += ...; total_checked += ...
Metrics ==
  /\ pc = "metrics"
  /\ num_correct' = num_correct + Matches(scores, CurrentBatch)
  /\ total_checked' = total_checked + Len(scores)
  /\ batch_idx' = batch_idx + 1
  /\ pc' = "batch"
  /\ UNCHANGED <<flagVars, model, optimizer, grad, file, dataVars, epoch,
                 losses, batchVars, ca, acc, ghostVars, err>>

\* ------------------------------------------------------ main, lines 170-178
\* if self.save_model: self.save_checkpoint(checkpoint_file, model, optimizer, epoch)
Save ==
  /\ pc = "save"
  /\ IF self.save_model
       THEN /\ file' = SaveState(model, optimizer, epoch)
            /\ saves' = saves + 1
            /\ saved' = <<[params |-> model.params, optimizer |-> optimizer,
                           epoch |-> epoch]>>
       ELSE UNCHANGED <<file, saves, saved>>
  /\ pc' = "mean_loss"
  /\ UNCHANGED <<flagVars, model, optimizer, grad, dataVars, loopVars,
                 batchVars, ca, acc, steps, evals, err>>

\* print(f'Mean loss this epoch: {sum(losses)/len(losses):.4f}') and the call
\* self.check_accuracy(validation_loader, model)
MeanLoss ==
  /\ pc = "mean_loss"
  /\ IF Len(losses) = 0
       THEN /\ pc' = "raised"
            /\ err' = "ZeroDivisionError"
            /\ ca' = ca
       ELSE /\ pc' = "ca_begin"
            /\ err' = err
            /\ ca' = [NoFrame EXCEPT !.loader = validation_loader,
                                     !.ret = "train_acc"]
  /\ UNCHANGED <<flagVars, model, optimizer, grad, file, dataVars, loopVars,
                 batchVars, acc, ghostVars>>

\* print(f'Accuracy Training: {float(num_correct)/float(total_checked):.4f}')
TrainAcc ==
  /\ pc = "train_acc"
  /\ IF total_checked = 0
       THEN pc' = "raised" /\ err' = "ZeroDivisionError" /\ epoch' = epoch
       ELSE pc' = "epoch" /\ err' = err /\ epoch' = epoch + 1
  /\ UNCHANGED <<flagVars, model, optimizer, grad, file, dataVars, batch_idx,
                 num_correct, total_checked, losses, batchVars, ca, acc,
                 ghostVars>>

\* ------------------------------------------- check_accuracy, lines 84-106
\* A mode switch that always ends in inference mode.
SetModeAlwaysEval(m, training) == [m EXCEPT !.training = FALSE]

\* A division that yields a value (nan) on a zero divisor instead of raising.
DivisionNeverRaises(num_samples) == FALSE

\* The accuracy left as a fraction of 1.
AccuracyNoPercent(nc, ns) == [num |-> nc, den |-> ns]

\* model.eval() / model.train()
SetMode(m, training) == [m EXCEPT !.training = training]

\* float(num_correct) / num_samples: Python raises ZeroDivisionError on a zero
\* divisor, otherwise the quotient, times 100.0, is the accuracy.
DivisionRaises(num_samples) == num_samples = 0

Accuracy(nc, ns) == [num |-> nc * 100, den |-> ns]

\* num_correct = 0; num_samples = 0; model.eval()
CaBegin ==
  /\ pc = "ca_begin"
  /\ ca' = [ca EXCEPT !.i = 0, !.num_correct = 0, !.num_samples = 0,
                      !.entry = model]
  /\ model' = SetMode(model, FALSE)
  /\ acc' = << >>
  /\ pc' = "ca_loop"
  /\ UNCHANGED <<flagVars, optimizer, grad, file, dataVars, loopVars,
                 batchVars, ghostVars, err>>

\* one pass of "for x, y in loader" under torch.no_grad()
CaBatch ==
  /\ pc = "ca_loop"
  /\ ca.i < Len(ca.loader)
  /\ LET b == ca.loader[ca.i + 1]
         preds == Preds(model, b)
     IN ca' = [ca EXCEPT !.i = ca.i + 1,
                         !.num_correct = ca.num_correct + Matches(preds, b),
                         !.num_samples = ca.num_samples + Len(preds)]
  /\ UNCHANGED <<flagVars, model, optimizer, grad, file, dataVars, loopVars,
                 batchVars, acc, ghostVars, pc, err>>

\* acc = (float(num_correct) / num_samples) * 100.0, print, model.train(),
\* return acc; the division raises when num_samples is 0.
CaReturn ==
  /\ pc = "ca_loop"
  /\ ca.i = Len(ca.loader)
  /\ IF DivisionRaises(ca.num_samples)
       THEN /\ pc' = "raised"
            /\ err' = "ZeroDivisionError"
            /\ UNCHANGED <<model, acc, evals>>
       ELSE /\ acc' = <<Accuracy(ca.num_correct, ca.num_samples)>>
            /\ model' = SetMode(model, TRUE)
            /\ evals' = evals + 1
            /\ pc' = ca.ret
            /\ err' = err
  /\ UNCHANGED <<flagVars, optimizer, grad, file, dataVars, loopVars,
                 batchVars, ca, steps, saves, saved>>

Next ==
  \/ ValidateFlags
  \/ MainSetupModel
  \/ MainOptimizer
  \/ MainLoadData
  \/ EpochBegin
  \/ NextBatch
  \/ Forward
  \/ Loss
  \/ ZeroGrad
  \/ BackwardPass
  \/ OptimizerStep
  \/ Metrics
  \/ Save
  \/ MeanLoss
  \/ TrainAcc
  \/ CaBegin
  \/ CaBatch
  \/ CaReturn

Spec == Init /\ [][Next]_vars

\* ---------------------------------------------- check_accuracy called alone
RECURSIVE SeqsUpTo(_, _)
SeqsUpTo(S, n) ==
  IF n = 0 THEN {<< >>}
  ELSE LET shorter == SeqsUpTo(S, n - 1)
       IN shorter \cup {Append(q, e) : q \in {r \in shorter : Len(r) = n - 1}, e \in S}

\* The configurations with the attributes check_accuracy, save_checkpoint and
\* load_model do not read left at one value.
MethodConfig ==
  {c \in Config : c.num_epochs = 0 /\ ~c.save_model /\ c.drop_rate = 0}

\* check_accuracy(loader, model) on a model setup_model built and the loader
\* of any dataset, the empty one included.
InitEval ==
  /\ train_CNN \in BOOLEAN
  /\ train_FC = ~train_CNN
  /\ self \in {c \in MethodConfig : c.learning_rate = 1 /\ c.weight_decay = 0}
  /\ split = <<1, 1>>
  /\ \E w \in Params : model = SetupModel(train_CNN, train_FC, w)
  /\ optimizer = SGD(self.learning_rate, self.weight_decay, 0)
  /\ file = NoFile
  /\ train_loader = << >>
  /\ validation_loader = << >>
  /\ \E data \in SeqsUpTo(Sample, MaxEvalData) :
       ca = [NoFrame EXCEPT !.loader = DataLoader(data, self.batch_size),
                            !.ret = "returned"]
  /\ pc = "ca_begin"
  /\ epoch = 0
  /\ InitLocals

NextEval ==
  \/ CaBegin
  \/ CaBatch
  \/ CaReturn

SpecEval == InitEval /\ [][NextEval]_vars

\* ------------------------------- save_checkpoint and load_model called alone
\* The caller trains one batch: zero_grad, backward, step.
ApiTrain ==
  /\ pc \in {"api", "saved", "loaded", "roundtrip"}
  /\ \E g \in Params :
       /\ grad' = g
       /\ model' = [model EXCEPT !.params = StepParams(model.params, g, optimizer)]
       /\ optimizer' = [optimizer EXCEPT !.state = StepBuffer(model.params, g, optimizer)]
  /\ pc' = "api"
  /\ UNCHANGED <<flagVars, file, dataVars, loopVars, batchVars, ca, acc,
                 ghostVars, err>>

\* The hyperparameters are adjusted before a resume.
ApiSetRates ==
  /\ pc \in {"api", "saved", "loaded", "roundtrip"}
  /\ \E lr \in LearningRates, wd \in WeightDecays :
       /\ <<lr, wd>> # <<self.learning_rate, self.weight_decay>>
       /\ self' = [self EXCEPT !.learning_rate = lr, !.weight_decay = wd]
  /\ pc' = "api"
  /\ UNCHANGED <<train_CNN, train_FC, split, model, optimizer, grad, file,
                 dataVars, loopVars, batchVars, ca, acc, ghostVars, err>>

\* self.save_checkpoint(self.checkpoint_file, model, optimizer, epoch)
ApiSave ==
  /\ pc \in {"api", "saved", "loaded", "roundtrip"}
  /\ file' = SaveState(model, optimizer, epoch)
  /\ saved' = <<[params |-> model.params, optimizer |-> optimizer,
                 epoch |-> epoch]>>
  /\ pc' = "saved"
  /\ UNCHANGED <<flagVars, model, optimizer, grad, dataVars, loopVars,
                 batchVars, ca, acc, steps, saves, evals, err>>

\* self.load_model(model, optimizer, self.checkpoint_file); torch.load raises
\* when there is no file.
ApiLoad ==
  /\ pc \in {"api", "saved", "loaded", "roundtrip"}
  /\ IF file = NoFile
       THEN /\ pc' = "raised"
            /\ err' = "FileNotFoundError"
            /\ UNCHANGED <<model, optimizer>>
       ELSE /\ model' = LoadStateDict(model, file)
            /\ optimizer' = LoadOptimizer(file, self.learning_rate, self.weight_decay)
            /\ pc' = IF pc = "saved" THEN "roundtrip" ELSE "loaded"
            /\ err' = err
  /\ UNCHANGED <<flagVars, grad, file, dataVars, loopVars, batchVars, ca, acc,
                 ghostVars>>

\* A built model and its optimizer, no checkpoint file yet; epoch is where the
\* caller's epoch loop stands.
InitCheckpoint ==
  /\ train_CNN \in BOOLEAN
  /\ train_FC = ~train_CNN
  /\ self \in {c \in MethodConfig : c.batch_size = 1}
  /\ split = <<1, 1>>
  /\ \E w \in Params : model = SetupModel(train_CNN, train_FC, w)
  /\ \E mom \in Momenta : optimizer = SGD(self.learning_rate, self.weight_decay, mom)
  /\ file = NoFile
  /\ train_loader = << >>
  /\ validation_loader = << >>
  /\ ca = NoFrame
  /\ pc = "api"
  /\ InitLocals
  /\ epoch \in 0..MaxCallerEpoch

NextCheckpoint ==
  \/ ApiTrain
  \/ ApiSetRates
  \/ ApiSave
  \/ ApiLoad

SpecCheckpoint == InitCheckpoint /\ [][NextCheckpoint]_vars

\* The script is one thread: a step that can be taken is taken.
FairSpec == Spec /\ WF_vars(Next)

\* ============================================================ properties
CeilDiv(n, b) == (n + b - 1) \div b

\* Batches of one epoch, from the sizes alone.
BatchesPerEpoch == CeilDiv(split[1], self.batch_size)

RECURSIVE Flatten(_)
Flatten(loader) ==
  IF Len(loader) = 0 THEN << >> ELSE loader[1] \o Flatten(Tail(loader))

TotalSamples(loader) == Len(Flatten(loader))

CorrectSamples(m, loader) ==
  LET flat == Flatten(loader)
  IN Cardinality({i \in 1..Len(flat) : Predict(m, flat[i].x) = flat[i].y})

\* C1: validation passes only when exactly one of train_CNN, train_FC is set;
\* with both or neither set it fails and setup_model is never reached, so no
\* model is built.
C1_ExactlyOneFlag ==
  (train_CNN = train_FC) =>
     /\ pc \in {"assert", "raised"}
     /\ pc = "raised" => err = "AssertionError"
     /\ model = NoModel

\* C2: after save_checkpoint(path, model, optimizer, e) immediately followed by
\* load_model on the same path, the model parameters are the saved ones and the
\* epoch counter the caller has equals e + 1.
C2_RoundTrip ==
  pc = "roundtrip" =>
     /\ model.params = saved[1].params
     /\ epoch = saved[1].epoch + 1

\* C3: after load_model returns, every parameter group has the configuration's
\* learning rate and weight decay, whatever the checkpoint stored; the rest of
\* the optimizer state and the model state are the checkpoint's.
C3_LoadAppliesCurrentRates ==
  pc \in {"loaded", "roundtrip"} =>
     /\ Len(optimizer.param_groups) = Len(file.optimizer.param_groups)
     /\ \A i \in 1..Len(optimizer.param_groups) :
          /\ optimizer.param_groups[i].lr = self.learning_rate
          /\ optimizer.param_groups[i].weight_decay = self.weight_decay
          /\ optimizer.param_groups[i].momentum = file.optimizer.param_groups[i].momentum
     /\ optimizer.state = file.optimizer.state
     /\ model.params = file.state_dict

C3_Witness ==
  /\ pc = "loaded"
  /\ file.optimizer.param_groups[1].lr # self.learning_rate
  /\ file.optimizer.param_groups[1].weight_decay # self.weight_decay
  /\ file.optimizer.state # 0

\* C4: on a non-empty loader check_accuracy returns 100 * correct / total, total
\* the number of samples of all batches and correct the number of them whose
\* predicted class is the label; 0 <= correct <= total after every batch and
\* the accuracy lies in [0, 100].
C4_Accuracy ==
  /\ pc = "ca_loop" => 0 <= ca.num_correct /\ ca.num_correct <= ca.num_samples
  /\ TotalSamples(ca.loader) > 0 => pc # "raised"
  /\ acc # << >> =>
       /\ TotalSamples(ca.loader) > 0
       /\ acc[1].den > 0
       /\ acc[1].num * TotalSamples(ca.loader)
            = 100 * CorrectSamples(model, ca.loader) * acc[1].den
       /\ 0 <= acc[1].num /\ acc[1].num <= 100 * acc[1].den

C4_Witness ==
  /\ pc = "returned"
  /\ acc # << >>
  /\ Len(ca.loader) = 2
  /\ 0 < acc[1].num /\ acc[1].num < 100 * acc[1].den

\* C5: check_accuracy on an empty loader fails with an error and returns no
\* accuracy value.
C5_EmptyLoaderRaises ==
  TotalSamples(ca.loader) = 0 =>
     /\ acc = << >>
     /\ pc \in {"ca_begin", "ca_loop", "raised"}
     /\ pc = "raised" => err = "ZeroDivisionError"

C5_Witness ==
  /\ pc = "raised"
  /\ err = "ZeroDivisionError"
  /\ Len(ca.loader) = 0
  /\ acc = << >>

\* C6: check_accuracy leaves the model as it found it: in inference mode while
\* the batches are scored, with the parameters it had on entry throughout, and
\* back in training mode, unchanged, when the call returns.
C6_NoNetEffect ==
  /\ pc = "ca_loop" => ~model.training /\ model.params = ca.entry.params
  /\ pc = "returned" => model.training /\ model = ca.entry

C6_Witness ==
  /\ pc = "returned"
  /\ Len(ca.loader) = 2
  /\ model = ca.entry

\* C7: the training loop ends after exactly num_epochs epochs, every epoch
\* taking ceil(N/B) optimizer steps, num_epochs * ceil(N/B) in all, and then
\* the script is done without an error.
C7_Terminates ==
  /\ FlagAssertion(train_CNN, train_FC) => <>(pc = "done")
  /\ [](pc = "raised" => ~FlagAssertion(train_CNN, train_FC))
  /\ [](pc \in {"batch", "save"} => steps = epoch * BatchesPerEpoch + batch_idx)
  /\ [](pc = "save" => batch_idx = BatchesPerEpoch)
  /\ [](pc = "done" => /\ epoch = self.num_epochs
                       /\ steps = self.num_epochs * BatchesPerEpoch
                       /\ err = NoError)

C7_Witness ==
  /\ pc = "done"
  /\ self.num_epochs = 2
  /\ split[1] = 3
  /\ self.batch_size = 2
  /\ steps = 4

\* C8: the checkpoint file is written only when save_model is set, after the
\* last optimizer step of epoch e and before that epoch's validation and any
\* batch of epoch e + 1; what is written is the model and optimizer state of
\* that moment with the marker e + 1.
C8_SaveAtEpochEnd ==
  [][/\ (file' # file \/ saves' # saves) =>
          /\ self.save_model
          /\ pc = "save" /\ pc' = "mean_loss"
          /\ batch_idx = Len(train_loader)
          /\ steps = (epoch + 1) * Len(train_loader)
          /\ evals = epoch
          /\ saves' = epoch + 1
          /\ file' = [state_dict |-> model.params, epoch |-> epoch + 1,
                      optimizer |-> optimizer]
          /\ model' = model /\ optimizer' = optimizer
     /\ (pc = "forward" /\ self.save_model) => saves = epoch
     /\ (pc = "ca_begin" /\ self.save_model) => saves = epoch + 1
    ]_vars

C8_Witness ==
  /\ pc = "mean_loss"
  /\ saves = 2
  /\ file = SaveState(model, optimizer, 1)
  /\ Len(train_loader) = 2

\* C9: the model setup_model builds has its dropout layers at the
\* configuration's drop_rate and a final layer of 10 outputs.
C9_DropoutFromConfig ==
  model # NoModel =>
     /\ model.dropout_p = self.drop_rate
     /\ model.out_features = 10

\* What C10 says of every step but the recording of the loss: an optimizer step
\* is the step of the batch in turn, taken in training mode on the gradient of
\* that batch's loss alone; the correct-prediction count follows the step; the
\* evaluator starts when all batches of the epoch are done.
BatchOrder ==
  /\ steps' # steps =>
       /\ steps' = steps + 1
       /\ steps = epoch * Len(train_loader) + batch_idx
       /\ model.training
       /\ loss = CrossEntropyLoss(scores, CurrentBatch)
       /\ losses[batch_idx + 1] = loss
       /\ grad = Backward(0, loss)
       /\ model'.params = StepParams(model.params, grad, optimizer)
  /\ (pc = "loss" \/ pc' = "loss") => scores' = Preds(model, CurrentBatch)
  /\ (total_checked' # total_checked /\ pc # "epoch") =>
       /\ steps = epoch * Len(train_loader) + batch_idx + 1
       /\ total_checked' = total_checked + Len(CurrentBatch)
       /\ num_correct' = num_correct + Matches(scores, CurrentBatch)
       /\ batch_idx' = batch_idx + 1
  /\ pc' = "forward" => steps = epoch * Len(train_loader) + batch_idx
  /\ pc' = "ca_begin" =>
       /\ batch_idx = Len(train_loader)
       /\ steps = (epoch + 1) * Len(train_loader)

\* C10 as stated: forward pass, loss, zero gradients, backpropagation, optimizer
\* step, then the accumulation of the metrics (the loss and the
\* correct-prediction count), one batch after the other, the evaluator after
\* the last batch, every optimizer step in training mode.
C10_MetricsAfterStep ==
  [][/\ BatchOrder
     /\ (losses' # losses /\ pc # "epoch") =>
          steps = epoch * Len(train_loader) + batch_idx + 1
    ]_vars

\* C10 amended: the loss is appended to the epoch's losses right after it is
\* computed, before the gradients are zeroed; only the correct-prediction count
\* is accumulated after the optimizer step.
C10_LossRecordedBeforeStep ==
  [][/\ BatchOrder
     /\ (losses' # losses /\ pc # "epoch") =>
          /\ pc = "loss"
          /\ losses' = Append(losses, CrossEntropyLoss(scores, CurrentBatch))
          /\ Len(losses) = batch_idx
          /\ steps = epoch * Len(train_loader) + batch_idx
    ]_vars

C10_Witness ==
  /\ pc = "metrics"
  /\ epoch = 1
  /\ batch_idx = 1
  /\ Len(losses) = 2
  /\ steps = Len(train_loader) + 2

====
